---- MODULE Spec2Model ----
(***************************************************************************)
(* noiseImporter (NuRadioReco/modules/io/noise/noiseImporterUproot.py):    *)
(* begin() reads recorded noise files into the importer's attributes,      *)
(* run() adds one randomly drawn noise waveform to every channel of a      *)
(* station.                                                                *)
(*                                                                         *)
(* Numbers.  A sample is a polynomial in the unit constant units.mV,       *)
(* <<c0, c1, c2>> standing for c0 + c1*mV + c2*mV^2, so that a value that  *)
(* was multiplied by units.mV differs from one that was not (units.mV is   *)
(* not 1).  An interpolated slow-control value is an exact fraction        *)
(* <<num, den>> in lowest terms, or NaN; floating-point rounding is not    *)
(* modelled.                                                               *)
(***************************************************************************)
EXTENDS Integers, Sequences, FiniteSets, TLC

\* ---- bounds of the model ----
NoiseChans == 2        \* channels per recorded event in the synthetic files
NoiseSamples == 2      \* samples per recorded channel
MaxFiles == 2          \* longest list of noise files passed to begin
MaxChannelId == 3      \* largest simulated channel id
MaxStationChans == 2   \* most channels of a simulated station
MaxTime == 3           \* largest slow-control sample time (SpecInterp)
MaxSeries == 3         \* longest slow-control series (SpecInterp)
MaxValue == 2          \* largest slow-control sample value (SpecInterp)
MaxBunches == 2        \* most full bunches of a recorded file (SpecRead)

\* ---- program constant ----
BatchSize == 1000      \* rows per bunch, and the threshold below which one read is used

NaN == <<0, 0>>        \* a value that is no number (0/0)

\* ---- sequences ----
RECURSIVE Flatten(_)
Flatten(ss) == IF ss = <<>> THEN <<>> ELSE Head(ss) \o Flatten(Tail(ss))

\* np.concatenate(list): ValueError on an empty list
CanConcatenate(ss) == ss # <<>>

Concatenate(ss) == Flatten(ss)

\* ---- units ----
\* x * units.mV
TimesMV(v) == <<0, v[1], v[2]>>

\* element-wise sum of two sample values
AddValue(a, b) == <<a[1] + b[1], a[2] + b[2], a[3] + b[3]>>

\* (array of one channel) * units.mV
ScaleTrace(w) == [k \in 1..Len(w) |-> TimesMV(w[k])]

\* (array of events x channels x samples) * units.mV
ScaleRows(rows) ==
    [i \in 1..Len(rows) |->
        [c \in 1..Len(rows[i]) |-> ScaleTrace(rows[i][c])]]

\* ---- a noise file ----
\* f.n events; f.tag marks the file's data; f.t0 is the time of its first event;
\* f.temp and f.volt are the slow-control series [times, values].
RawSample(f, row, c, k) == <<f.tag + 10 * row + c + k, 0, 0>>

\* rows [first, last) of AmpOutData.fData, as array(entry_start, entry_stop) returns them
ArrayRows(f, first, last) ==
    [j \in 1..(last - first) |->
        [c \in 1..NoiseChans |->
            [k \in 1..NoiseSamples |-> RawSample(f, first + j - 1, c, k)]]]

\* the whole field, as array() returns it
ArrayAll(f) == ArrayRows(f, 0, f.n)

\* np.arange(0, n, 1000) with n appended
Bunches(n) ==
    LET cnt == (n + BatchSize - 1) \div BatchSize
    IN  [i \in 1..(cnt + 1) |-> IF i <= cnt THEN (i - 1) * BatchSize ELSE n]

First(n) == SubSeq(Bunches(n), 1, Len(Bunches(n)) - 1)

Last(n) == Tail(Bunches(n))

\* the chunks begin appends to its list `data` for one file
ReadData(f) ==
    IF f.n < BatchSize
    THEN <<ArrayAll(f)>>
    ELSE [i \in 1..Len(First(f.n)) |->
             ScaleRows(ArrayRows(f, First(f.n)[i], Last(f.n)[i]))]

\* EventHeader.fTime, seconds part, one per event
EventTimes(f) == [i \in 1..f.n |-> f.t0 + i - 1]

\* EventHeader.fTrgInfo, first element of each record
TriggerInfo(f) == [i \in 1..f.n |-> 2]

RunNumbers(f) == [i \in 1..f.n |-> f.tag]

StationIds(f) == [i \in 1..f.n |-> 52]

DTms(f) == [i \in 1..f.n |-> i]

\* ---- exact fractions ----
Abs(a) == IF a < 0 THEN -a ELSE a

RECURSIVE GCD(_, _)
GCD(a, b) == IF b = 0 THEN a ELSE GCD(b, a % b)

\* num/den in lowest terms, den > 0
Frac(num, den) ==
    LET g == GCD(Abs(num), Abs(den))
        s == IF den < 0 THEN -1 ELSE 1
    IN  <<(s * num) \div g, (s * den) \div g>>

Min(a, b) == IF a < b THEN a ELSE b

Max(a, b) == IF a > b THEN a ELSE b

\* ---- scipy.interpolate.interp1d(x, y, bounds_error=False, fill_value=(below, above)) ----
\* np.searchsorted(x, q): the number of entries of the sorted x below q
SearchSorted(x, q) == Cardinality({i \in 1..Len(x) : x[i] < q})

\* np.clip(v, lo, hi) is minimum(hi, maximum(v, lo))
Clip(v, lo, hi) == Min(hi, Max(v, lo))

\* x[i0] for a 0-based index, a negative one counting from the end
At(x, i0) == x[(IF i0 < 0 THEN i0 + Len(x) ELSE i0) + 1]

\* linear interpolation between the bracketing samples; a zero interval divides by zero
CallLinear(x, y, q) ==
    LET idx == Clip(SearchSorted(x, q), 1, Len(x) - 1)
        xlo == At(x, idx - 1)
        xhi == At(x, idx)
        ylo == At(y, idx - 1)
        yhi == At(y, idx)
    IN  IF xhi = xlo
        THEN NaN
        ELSE Frac((yhi - ylo) * (q - xlo) + ylo * (xhi - xlo), xhi - xlo)

\* the interpolator evaluated at one query time; x is non-decreasing, as read from the file
Evaluate(x, y, below, above, q) ==
    IF q < x[1] THEN Frac(below, 1)
    ELSE IF q > x[Len(x)] THEN Frac(above, 1)
    ELSE CallLinear(x, y, q)

\* interp1d(time, data, bounds_error=False, fill_value=(data[0], data[-1]))(interpolation_times)
\* minval is the least series length the installed scipy accepts for kind='linear'
Interpolate(time, data, interpolation_times, minval) ==
    IF Len(data) = 0 THEN [exc |-> "IndexError", val |-> <<>>]
    ELSE IF Len(time) < minval THEN [exc |-> "ValueError", val |-> <<>>]
    ELSE [exc |-> "none",
          val |-> [i \in 1..Len(interpolation_times) |->
                      Evaluate(time, data, data[1], data[Len(data)],
                               interpolation_times[i])]]

\* an argument that is absent (None), a string or an array
None == [kind |-> "none"]

Str(s) == [kind |-> "str", v |-> s]

Array(a) == [kind |-> "array", v |-> a]

\* _read_temperature_curve(nf, interpolation_times)
ReadTemperatureCurve(f, interpolation_times, minval) ==
    IF interpolation_times.kind = "none"
    THEN [exc |-> "none", val |-> f.temp.values]
    ELSE Interpolate(f.temp.times, f.temp.values, interpolation_times.v, minval)

\* the voltages are read as fave * units.mV; interpolation is linear, so the factor
\* carries over to every interpolated value
InMV(vals) == [i \in 1..Len(vals) |-> [mV |-> vals[i]]]

\* _read_power_curve(nf, val, interpolation_times): the field name is
\* 'PowerReading./PowerReading.fave' + val, a TypeError unless val is a string
ReadPowerCurve(f, val, interpolation_times, minval) ==
    IF val.kind # "str" THEN [exc |-> "TypeError", val |-> <<>>]
    ELSE IF interpolation_times.kind = "none"
    THEN [exc |-> "none", val |-> InMV(f.volt.values)]
    ELSE LET r == Interpolate(f.volt.times, f.volt.values, interpolation_times.v, minval)
         IN  [exc |-> r.exc, val |-> InMV(r.val)]

\* ---- logging ----
\* Logger.info / Logger.warning: nothing happens unless the level is enabled; an
\* enabled call hands its keyword arguments to Logger._log, which accepts none of
\* the names used here
LevelNo(l) == CASE l = "DEBUG" -> 10 [] l = "INFO" -> 20 [] l = "WARNING" -> 30 [] l = "ERROR" -> 40

IsEnabledFor(level, logLevel) == LevelNo(level) >= LevelNo(logLevel)

LogRaises(level, kwargs, logLevel) == IsEnabledFor(level, logLevel) /\ kwargs

\* ---- begin ----
\* what one pass of the loop over the files raises, "none" if it completes
FileExc(f, read_temperatures, read_power, logLevel, minval) ==
    IF LogRaises("INFO", TRUE, logLevel) THEN "TypeError"
    ELSE IF read_temperatures
            /\ ReadTemperatureCurve(f, Array(EventTimes(f)), minval).exc # "none"
    THEN ReadTemperatureCurve(f, Array(EventTimes(f)), minval).exc
    ELSE IF read_power
    THEN ReadPowerCurve(f, Array(EventTimes(f)), None, minval).exc
    ELSE "none"

RECURSIVE LoopExc(_, _, _, _, _)
LoopExc(files, read_temperatures, read_power, logLevel, minval) ==
    IF files = <<>> THEN "none"
    ELSE LET e == FileExc(Head(files), read_temperatures, read_power, logLevel, minval)
         IN  IF e # "none" THEN e
             ELSE LoopExc(Tail(files), read_temperatures, read_power, logLevel, minval)

\* the accumulator lists after the loop
DataList(files) == Flatten([i \in 1..Len(files) |-> ReadData(files[i])])

PosixTimesList(files) == [i \in 1..Len(files) |-> EventTimes(files[i])]

TriggerList(files) == [i \in 1..Len(files) |-> TriggerInfo(files[i])]

RunList(files) == [i \in 1..Len(files) |-> RunNumbers(files[i])]

StationIdList(files) == [i \in 1..Len(files) |-> StationIds(files[i])]

DTmsList(files) == [i \in 1..Len(files) |-> DTms(files[i])]

TemperatureList(files, read_temperatures, minval) ==
    IF read_temperatures
    THEN [i \in 1..Len(files) |->
             ReadTemperatureCurve(files[i], Array(EventTimes(files[i])), minval).val]
    ELSE <<>>

PowerList(files, read_power, minval) ==
    IF read_power
    THEN [i \in 1..Len(files) |->
             ReadPowerCurve(files[i], Array(EventTimes(files[i])), None, minval).val]
    ELSE <<>>

\* lines 110-113
Assign1(self, files) ==
    [self EXCEPT !.attrs = @ \cup {"data", "posix_time", "datetime", "trigger"},
                 !.data = Concatenate(DataList(files)),
                 !.posix_time = Concatenate(PosixTimesList(files)),
                 !.datetime = Concatenate(PosixTimesList(files)),
                 !.trigger = Concatenate(TriggerList(files))]

\* lines 118-121
Assign3(self, files) ==
    [self EXCEPT !.attrs = @ \cup {"station_id", "dtms", "run_number", "nevts"},
                 !.station_id = Concatenate(StationIdList(files)),
                 !.dtms = Concatenate(DTmsList(files)),
                 !.run_number = Concatenate(RunList(files)),
                 !.nevts = Len(self.data)]

\* lines 116-121
Assign2(self, files, read_power, minval) ==
    IF ~read_power THEN [exc |-> "none", self |-> Assign3(self, files)]
    ELSE IF ~CanConcatenate(PowerList(files, read_power, minval))
    THEN [exc |-> "ValueError", self |-> self]
    ELSE [exc |-> "none",
          self |-> Assign3([self EXCEPT
                       !.attrs = @ \cup {"power"},
                       !.power = Concatenate(PowerList(files, read_power, minval))],
                           files)]

\* begin(noise_files, read_temperatures, read_power): the exception it raises and the
\* attributes it leaves.  read_temperature is what the name `read_temperature` of line
\* 114, which is no parameter and no local, is bound to in the module's globals.
BeginResult(self, files, read_temperatures, read_power, logLevel, read_temperature, minval) ==
    LET loop == LoopExc(files, read_temperatures, read_power, logLevel, minval)
        s1 == Assign1(self, files)
        tl == TemperatureList(files, read_temperatures, minval)
    IN  IF loop # "none" THEN [exc |-> loop, self |-> self]
        ELSE IF ~CanConcatenate(DataList(files)) THEN [exc |-> "ValueError", self |-> self]
        ELSE IF read_temperature = "unbound" THEN [exc |-> "NameError", self |-> s1]
        ELSE IF read_temperature = "True"
        THEN IF ~CanConcatenate(tl) THEN [exc |-> "ValueError", self |-> s1]
             ELSE Assign2([s1 EXCEPT !.attrs = @ \cup {"temperature"},
                                     !.temperature = Concatenate(tl)],
                          files, read_power, minval)
        ELSE Assign2(s1, files, read_power, minval)

\* ---- run ----
\* random.randint(a, b): both ends included
RandInt(a, b) == a..b

\* AddNoise without the copy: the noise is a view of the recorded waveform, so adding
\* the trace into it writes into self.data
AddNoiseInPlace(data, noise_event, channel_id, trace) ==
    LET sum == [k \in 1..Len(trace) |->
                   AddValue(TimesMV(data[noise_event + 1][channel_id + 1][k]), trace[k])]
    IN  [data |-> [data EXCEPT ![noise_event + 1][channel_id + 1] = sum],
         trace |-> sum]

\* lines 192-193: the noise is a new array, the recorded waveform times units.mV, and
\* the trace is added into that array; self.data is what it was
AddNoise(data, noise_event, channel_id, trace) ==
    LET noise_trace == ScaleTrace(data[noise_event + 1][channel_id + 1])
    IN  [data |-> data,
         trace |-> [k \in 1..Len(trace) |-> AddValue(noise_trace[k], trace[k])]]

\* one pass of the loop over the channels, after noise_event was drawn: the exception
\* it raises, the noise channel it uses, the warning calls it completes, and the
\* trace and the recorded data it leaves
ChannelPass(data, channel, noise_event, logLevel) ==
    LET nchans == Len(data[1])
        remap == channel.id > nchans - 1
        channel_id == IF remap THEN channel.id % nchans ELSE channel.id
        w == IF remap THEN <<"remap">> ELSE <<>>
        noise_samples == Len(data[1][1])
        same == [exc |-> "none", channel_id |-> channel_id, warnings |-> w,
                 trace |-> channel.trace, data |-> data]
    IN  IF remap /\ LogRaises("WARNING", TRUE, logLevel)
        THEN [same EXCEPT !.exc = "TypeError", !.warnings = <<>>]
        ELSE IF noise_samples # Len(channel.trace)
        THEN [same EXCEPT !.warnings = w \o <<"mismatch">>]
        ELSE IF noise_event >= Len(data)
        THEN [same EXCEPT !.exc = "IndexError"]
        ELSE LET r == AddNoise(data, noise_event, channel_id, channel.trace)
             IN  [same EXCEPT !.trace = r.trace, !.data = r.data]

\* ---- state ----
VARIABLES
    disk,              \* the noise files that exist
    logLevel,          \* effective level of the logger 'noiseImporter'
    read_temperature,  \* what line 114's name read_temperature resolves to in the module's
                       \* globals: "unbound" as the module is written (NameError), "True"
                       \* or "False" if other code has bound the name there
    minval,            \* least series length the installed scipy accepts for kind='linear'
    importer,          \* the noiseImporter object: attrs is the set of attributes assigned
    beginCall,         \* the arguments and the outcome of the call of begin
    pc,                \* "idle"; inside run: "run" in the loop, "raised" when it has raised
    station,           \* the station passed to run: its channels [id, trace, rate]
    i,                 \* position of run's loop in station
    last,              \* the locals of the last pass of run's loop
    log,               \* the warning calls completed by this call of run: <<position, kind>>
    ret                \* the last direct call of a _read_*_curve helper and its result

vars == <<disk, logLevel, read_temperature, minval, importer, beginCall, pc, station, i,
          last, log, ret>>

HasAttr(self, name) == name \in self.attrs

\* a noiseImporter right after construction: the class has no __init__
NewImporter ==
    [attrs |-> {}, data |-> <<>>, posix_time |-> <<>>, datetime |-> <<>>,
     trigger |-> <<>>, temperature |-> <<>>, power |-> <<>>, station_id |-> <<>>,
     dtms |-> <<>>, run_number |-> <<>>, nevts |-> 0]

Levels == {"INFO", "WARNING", "ERROR"}

Bindings == {"unbound", "True", "False"}

NoCall == [called |-> FALSE, files |-> <<>>, read_temperatures |-> FALSE,
           read_power |-> FALSE, exc |-> "none"]

NoPass == [pos |-> 0, id |-> 0, before |-> <<>>, rate |-> 0, drawn |-> FALSE, noise_event |-> 0,
           channel_id |-> 0, exc |-> "none"]

NoRet == [called |-> FALSE, fn |-> "none", times |-> <<>>, values |-> <<>>,
          interpolated |-> FALSE, query |-> 0, exc |-> "none", val |-> <<>>]

\* two recorded files: one event, and two events
FileA == [tag |-> 100, n |-> 1, t0 |-> 10,
          temp |-> [times |-> <<9, 11>>, values |-> <<20, 22>>],
          volt |-> [times |-> <<9, 11>>, values |-> <<12, 14>>]]

FileB == [tag |-> 200, n |-> 2, t0 |-> 20,
          temp |-> [times |-> <<19, 20, 23>>, values |-> <<18, 21, 15>>],
          volt |-> [times |-> <<19, 23>>, values |-> <<11, 13>>]]

FileSet == {FileA, FileB}

InitRest ==
    /\ logLevel \in Levels
    /\ read_temperature \in Bindings
    /\ importer = NewImporter
    /\ beginCall = NoCall
    /\ pc = "idle"
    /\ station = <<>>
    /\ i = 0
    /\ last = NoPass
    /\ log = <<>>
    /\ ret = NoRet

Init == disk = FileSet /\ minval = 1 /\ InitRest

\* lists of at most n files of the disk
RECURSIVE FileLists(_)
FileLists(n) ==
    IF n = 0 THEN {<<>>}
    ELSE FileLists(n - 1) \cup
         {Append(l, f) : l \in {x \in FileLists(n - 1) : Len(x) = n - 1}, f \in disk}

\* begin(noise_files, read_temperatures, read_power), called once in a session
Begin(files, read_temperatures, read_power) ==
    /\ pc = "idle"
    /\ ~beginCall.called
    /\ LET r == BeginResult(importer, files, read_temperatures, read_power,
                            logLevel, read_temperature, minval)
       IN  /\ importer' = r.self
           /\ beginCall' = [called |-> TRUE, files |-> files,
                            read_temperatures |-> read_temperatures,
                            read_power |-> read_power, exc |-> r.exc]
    /\ UNCHANGED <<disk, logLevel, read_temperature, minval, pc, station, i, last, log, ret>>

\* the traces of the simulated channels: as long as the recorded noise (its first
\* sample zero), or one sample longer
SignalTrace == [k \in 1..NoiseSamples |-> <<k - 1, 0, 0>>]

LongTrace == [k \in 1..(NoiseSamples + 1) |-> <<k - 1, 0, 0>>]

Traces == {SignalTrace, LongTrace}

Channels == {[id |-> c, trace |-> t, rate |-> c + 1] : c \in 0..MaxChannelId, t \in Traces}

\* stations of at most n channels, their ids ascending
RECURSIVE StationsUpTo(_)
StationsUpTo(n) ==
    IF n = 0 THEN {<<>>}
    ELSE StationsUpTo(n - 1) \cup
         {Append(st, ch) : st \in {x \in StationsUpTo(n - 1) : Len(x) = n - 1},
                           ch \in Channels}

Ascending(st) == \A a \in 1..(Len(st) - 1) : st[a].id < st[a + 1].id

Stations == {st \in StationsUpTo(MaxStationChans) : Ascending(st)}

\* run(evt, station, det) is entered
RunCall(st) ==
    /\ pc = "idle"
    /\ beginCall.called
    /\ pc' = "run"
    /\ station' = st
    /\ i' = 1
    /\ last' = NoPass
    /\ log' = <<>>
    /\ UNCHANGED <<disk, logLevel, read_temperature, minval, importer, beginCall, ret>>

\* one pass of the loop of run: self.nevts is read first (line 173)
RunChannel ==
    /\ pc = "run"
    /\ i <= Len(station)
    /\ IF ~HasAttr(importer, "nevts")
       THEN /\ last' = [NoPass EXCEPT !.pos = i, !.id = station[i].id,
                                      !.before = station[i].trace,
                                      !.rate = station[i].rate,
                                      !.channel_id = station[i].id,
                                      !.exc = "AttributeError"]
            /\ pc' = "raised"
            /\ UNCHANGED <<importer, station, i, log>>
       ELSE \E noise_event \in RandInt(0, importer.nevts) :
               LET r == ChannelPass(importer.data, station[i], noise_event, logLevel)
               IN  /\ last' = [pos |-> i, id |-> station[i].id,
                               before |-> station[i].trace,
                               rate |-> station[i].rate, drawn |-> TRUE,
                               noise_event |-> noise_event,
                               channel_id |-> r.channel_id, exc |-> r.exc]
                   /\ importer' = [importer EXCEPT !.data = r.data]
                   /\ station' = [station EXCEPT ![i].trace = r.trace]
                   /\ log' = log \o [k \in 1..Len(r.warnings) |-> <<i, r.warnings[k]>>]
                   /\ pc' = IF r.exc = "none" THEN "run" ELSE "raised"
                   /\ i' = IF r.exc = "none" THEN i + 1 ELSE i
    /\ UNCHANGED <<disk, logLevel, read_temperature, minval, beginCall, ret>>

\* run is left, by returning after the loop or with the exception: its frame is gone
RunExit ==
    /\ \/ pc = "run" /\ i > Len(station)
       \/ pc = "raised"
    /\ pc' = "idle"
    /\ station' = <<>>
    /\ i' = 0
    /\ last' = NoPass
    /\ log' = <<>>
    /\ UNCHANGED <<disk, logLevel, read_temperature, minval, importer, beginCall, ret>>

Next ==
    \/ \E files \in FileLists(MaxFiles), rt \in BOOLEAN, rp \in BOOLEAN :
          Begin(files, rt, rp)
    \/ \E st \in Stations : RunCall(st)
    \/ RunChannel
    \/ RunExit

Spec == Init /\ [][Next]_vars

\* ---- reading files of a thousand rows and more ----
RowCounts ==
    {n \in UNION {{b * BatchSize - 1, b * BatchSize, b * BatchSize + 1} :
                     b \in 0..MaxBunches} : n >= 1}

BigFile(n) == [tag |-> 300, n |-> n, t0 |-> 0, temp |-> FileA.temp, volt |-> FileA.volt]

InitRead == (\E n \in RowCounts : disk = {BigFile(n)}) /\ minval = 1 /\ InitRest

NextRead ==
    \E files \in FileLists(MaxFiles), rt \in BOOLEAN, rp \in BOOLEAN : Begin(files, rt, rp)

SpecRead == InitRead /\ [][NextRead]_vars

\* ---- the slow-control helpers called on their own ----
\* non-decreasing series of at most n sample times
RECURSIVE TimeSeries(_)
TimeSeries(n) ==
    IF n = 0 THEN {<<>>}
    ELSE TimeSeries(n - 1) \cup
         {Append(t, x) : t \in {y \in TimeSeries(n - 1) : Len(y) = n - 1},
                         x \in 0..MaxTime}

NonDecreasing(t) == \A a \in 1..(Len(t) - 1) : t[a] <= t[a + 1]

SeriesSet ==
    {[times |-> t, values |-> v] :
        t \in {x \in TimeSeries(MaxSeries) : NonDecreasing(x)},
        v \in UNION {[1..len -> 0..MaxValue] : len \in 0..MaxSeries}}

SeriesFile(sr) == [tag |-> 400, n |-> 1, t0 |-> 0, temp |-> sr, volt |-> sr]

InitInterp ==
    /\ \E sr \in {x \in SeriesSet : Len(x.times) = Len(x.values)} : disk = {SeriesFile(sr)}
    /\ minval \in {1, 2}
    /\ InitRest
    /\ logLevel = "WARNING"
    /\ read_temperature = "unbound"

\* _read_temperature_curve(nf, interpolation_times) called with one query time
CallReadTemperatureCurve(f, q) ==
    /\ pc = "idle"
    /\ LET r == ReadTemperatureCurve(f, Array(<<q>>), minval)
       IN  ret' = [called |-> TRUE, fn |-> "temperature", times |-> f.temp.times,
                   values |-> f.temp.values, interpolated |-> TRUE, query |-> q,
                   exc |-> r.exc, val |-> r.val]
    /\ UNCHANGED <<disk, logLevel, read_temperature, minval, importer, beginCall, pc,
                   station, i, last, log>>

\* _read_power_curve(nf, "V1", interpolation_times) called with one query time
CallReadPowerCurve(f, q) ==
    /\ pc = "idle"
    /\ LET r == ReadPowerCurve(f, Str("V1"), Array(<<q>>), minval)
       IN  ret' = [called |-> TRUE, fn |-> "power", times |-> f.volt.times,
                   values |-> f.volt.values, interpolated |-> TRUE, query |-> q,
                   exc |-> r.exc, val |-> [k \in 1..Len(r.val) |-> r.val[k].mV]]
    /\ UNCHANGED <<disk, logLevel, read_temperature, minval, importer, beginCall, pc,
                   station, i, last, log>>

NextInterp ==
    \/ \E f \in disk, q \in 0..(MaxTime + 1) : CallReadTemperatureCurve(f, q)
    \/ \E f \in disk, q \in 0..(MaxTime + 1) : CallReadPowerCurve(f, q)

SpecInterp == InitInterp /\ [][NextInterp]_vars

\* ---- the claims ----
\* begin has returned without an exception
Built == beginCall.called /\ beginCall.exc = "none"

\* the module as it is written and the logging as Python sets it up: no global named
\* read_temperature, warnings enabled, info disabled
DefaultEnv == read_temperature = "unbound" /\ logLevel = "WARNING"

\* run is inside a call and has made at least one pass of its loop
InPass == pc \in {"run", "raised"} /\ last.pos >= 1

nchans == Len(importer.data[1])

noise_samples == Len(importer.data[1][1])

Count(kind) == Cardinality({k \in 1..Len(log) : log[k] = <<last.pos, kind>>})

RECURSIVE SumEvents(_)
SumEvents(files) == IF files = <<>> THEN 0 ELSE Head(files).n + SumEvents(Tail(files))

\* C1: on a corpus of at least one event, the index run draws for a channel is in
\* [0, eventCount), and the lookup of the recorded waveform never fails.
NoiseEventInRange ==
    (Built /\ InPass /\ last.drawn /\ importer.nevts >= 1)
        => /\ last.noise_event \in 0..(importer.nevts - 1)
           /\ last.exc # "IndexError"

\* C2: the noise channel used is c below channelCount and c mod channelCount from
\* there on, always inside [0, channelCount); the remap warning is emitted exactly
\* once for a remapped channel and never for another.
ChannelRemap ==
    (Built /\ InPass)
        => /\ last.channel_id = IF last.id < nchans THEN last.id ELSE last.id % nchans
           /\ last.channel_id \in 0..(nchans - 1)
           /\ Count("remap") = IF last.id >= nchans THEN 1 ELSE 0

\* C3: a channel whose trace is not as long as the recorded noise keeps its trace,
\* gets exactly one warning for the mismatch, raises nothing whatever index was
\* drawn, and the loop goes on to the next channel.
LengthMismatchSkips ==
    (Built /\ InPass /\ Len(last.before) # noise_samples)
        => /\ station[last.pos].trace = last.before
           /\ Count("mismatch") = 1
           /\ last.exc = "none"
           /\ pc = "run"
           /\ i = last.pos + 1

\* C4: a channel whose trace is as long as the recorded noise gets, sample by sample,
\* its old trace plus the drawn recorded waveform times mV, at its old sampling rate.
InjectionAddsNoise ==
    (Built /\ InPass /\ Len(last.before) = noise_samples)
        => /\ last.exc = "none"
           /\ last.noise_event < Len(importer.data)
           /\ station[last.pos].trace =
                  [k \in 1..noise_samples |->
                      AddValue(last.before[k],
                               TimesMV(importer.data[last.noise_event + 1]
                                                    [last.channel_id + 1][k]))]
           /\ station[last.pos].rate = last.rate

\* C5: with both flags false, begin on a list of valid files completes, eventCount
\* is the sum of the files' event counts, and the events are the files' events in
\* list order, each file's own order kept.
BuildConcatenates ==
    (beginCall.called /\ DefaultEnv /\ beginCall.files # <<>>
       /\ ~beginCall.read_temperatures /\ ~beginCall.read_power)
        => /\ beginCall.exc = "none"
           /\ HasAttr(importer, "nevts")
           /\ importer.nevts = SumEvents(beginCall.files)
           /\ importer.run_number = Flatten(RunList(beginCall.files))
           /\ importer.dtms = Flatten(DTmsList(beginCall.files))

\* C6: begin with read_power completes, every per-event array is eventCount long,
\* and the voltage field holds one interpolated value per event.
PerEventArrays ==
    (beginCall.called /\ DefaultEnv /\ beginCall.files # <<>> /\ beginCall.read_power)
        => /\ beginCall.exc = "none"
           /\ {"nevts", "power"} \subseteq importer.attrs
           /\ \A a \in {importer.data, importer.trigger, importer.posix_time,
                        importer.datetime, importer.run_number, importer.station_id,
                        importer.dtms, importer.power} : Len(a) = importer.nevts

\* C7: reading the waveforms in bunches of a thousand rows gives the array one read
\* of the whole field gives: the bunches are contiguous, non-empty, ascending and
\* cover the rows exactly, and the values carry the same scaling.
BatchedEqualsUnbatched ==
    (beginCall.called /\ HasAttr(importer, "data"))
        => /\ importer.data =
                  Flatten([k \in 1..Len(beginCall.files) |-> ArrayAll(beginCall.files[k])])
           /\ \A f \in disk :
                 f.n >= BatchSize =>
                     /\ First(f.n)[1] = 0
                     /\ Last(f.n)[Len(Last(f.n))] = f.n
                     /\ \A k \in 1..Len(First(f.n)) : First(f.n)[k] < Last(f.n)[k]
                     /\ \A k \in 1..(Len(First(f.n)) - 1) : Last(f.n)[k] = First(f.n)[k + 1]

\* C8: for every combination of the flags begin completes, and the importer has a
\* temperature exactly when read_temperatures was true and a voltage exactly when
\* read_power was true.
OptionalFields ==
    (beginCall.called /\ DefaultEnv /\ beginCall.files # <<>>)
        => /\ beginCall.exc = "none"
           /\ HasAttr(importer, "temperature") <=> beginCall.read_temperatures
           /\ HasAttr(importer, "power") <=> beginCall.read_power

\* C9: for a series of two samples or more with non-decreasing times the
\* interpolator gives the first value before the first sample time, the last value
\* after the last one, and a sample's own value at that sample's time.
InterpolatorClamps ==
    (ret.called /\ ret.interpolated /\ Len(ret.times) >= 2)
        => /\ ret.exc = "none"
           /\ ret.query < ret.times[1] => ret.val[1] = Frac(ret.values[1], 1)
           /\ ret.query > ret.times[Len(ret.times)]
                 => ret.val[1] = Frac(ret.values[Len(ret.values)], 1)
           /\ (\E j \in 1..Len(ret.times) : ret.times[j] = ret.query)
                 => \E j \in 1..Len(ret.times) :
                       ret.times[j] = ret.query /\ ret.val[1] = Frac(ret.values[j], 1)

\* C10: once begin has returned, no step of run changes an attribute of the
\* importer, and a pass of run's loop changes no channel but the one it is at.
CorpusUnchangedByRun ==
    [][beginCall.called =>
          /\ importer' = importer
          /\ (pc = "run" /\ pc' # "idle") =>
                 /\ Len(station') = Len(station)
                 /\ \A j \in 1..Len(station) :
                       /\ station'[j].id = station[j].id
                       /\ station'[j].rate = station[j].rate
                       /\ j # i => station'[j] = station[j]]_vars

\* noise was added to the second channel of a station after a build that completed
InjectedIntoSecondChannel ==
    /\ Built
    /\ pc = "run"
    /\ last.pos = 2
    /\ last.exc = "none"
    /\ station[2].trace # last.before
    /\ importer.nevts = 3

====
